---------------------------- MODULE Spec2Model ----------------------------
(***************************************************************************)
(* Base122 codec (src/src/lib.rs): encode walks the input as a bit stream   *)
(* in 7-bit chunks and emits one byte per safe chunk or a two-byte UTF-8    *)
(* escape for a dangerous one; decode walks the chars of the text and       *)
(* accumulates 7-bit chunks back into bytes.                                *)
(*                                                                         *)
(* The model runs one call scenario per behaviour: either                   *)
(*   origin = "encode": encode(data) followed by decode of its result, or   *)
(*   origin = "text"  : decode of an arbitrary string.                      *)
(* Every get7 call and every push7 call is one step.                        *)
(***************************************************************************)
EXTENDS Integers, Sequences, FiniteSets

(***************************************************************************)
(* Bounds of the model.                                                     *)
(***************************************************************************)
\* longest input over SampleBytes handed to encode
MaxLen == 5
\* longest string (in chars) handed directly to decode
MaxChars == 2

Byte == 0..255

\* byte values the longer inputs are drawn from: 0x00 (all chunks dangerous),
\* 0x14 and 0xB8 (first chunk 10 and 92), 0x57 (low bits 10111: a final
\* chunk 92 at length 5), 0xFF (no dangerous chunk)
SampleBytes == {0, 20, 87, 184, 255}

\* scalar values the strings handed directly to decode are drawn from:
\* ASCII, escapes with index 0, 1, 5 and 7, index 6, the largest two-byte
\* scalar, a two-byte scalar without the escape's fixed bit, three-byte and
\* four-byte scalars
SampleChars == {65, 128, 479, 1472, 1664, 1984, 2047, 256, 2048, 8364, 65536}

(***************************************************************************)
(* Fixed-width integer arithmetic.                                          *)
(***************************************************************************)
RECURSIVE BitAnd(_, _)
BitAnd(x, y) ==
    IF x = 0 \/ y = 0 THEN 0
    ELSE (x % 2) * (y % 2) + 2 * BitAnd(x \div 2, y \div 2)

RECURSIVE BitOr(_, _)
BitOr(x, y) ==
    IF x = 0 THEN y
    ELSE IF y = 0 THEN x
    ELSE (IF x % 2 = 1 \/ y % 2 = 1 THEN 1 ELSE 0)
         + 2 * BitOr(x \div 2, y \div 2)

\* x >> k on an unsigned integer
Shr(x, k) == x \div (2 ^ k)

\* x << k on a u8: the bits shifted past bit 7 are lost
Shl8(x, k) == (x * (2 ^ k)) % 256

\* v as u8
AsU8(v) == v % 256

(***************************************************************************)
(* The shared constant tables.                                              *)
(***************************************************************************)
\* 0-based in the source; ILLEGALS[k + 1] here is ILLEGALS[k] there
ILLEGALS == <<0, 10, 13, 34, 38, 92>>

SHORTENED == 7

\* Faulty variant of IsIllegal: the table's last entry is not looked at.
IsIllegal_MissesLast(bits) ==
    \E k \in 1..(Len(ILLEGALS) - 1) : ILLEGALS[k] = bits

\* ILLEGALS.iter().position(|&x| x == bits) is Some
IsIllegal(bits) == \E k \in 1..Len(ILLEGALS) : ILLEGALS[k] = bits

\* the index position() returns: the first k with ILLEGALS[k] == bits
IllegalPosition(bits) ==
    CHOOSE k \in 0..(Len(ILLEGALS) - 1) :
        /\ ILLEGALS[k + 1] = bits
        /\ \A j \in 0..(k - 1) : ILLEGALS[j + 1] # bits

(***************************************************************************)
(* encode::get7, as a function of the cursor: the chunk returned (if any)   *)
(* and the cursor it leaves.                                                *)
(***************************************************************************)
\* Faulty variant of Get7SecondPart: the bits of the next byte are not
\* shifted down to the low end of the chunk.
Get7SecondPart_NoAlign(second_byte, cb) ==
    AsU8(BitAnd(BitAnd(Shr(65280, cb), second_byte), 255))

\* Faulty variant of Get7: a chunk that ends at the end of the data is
\* dropped (None) instead of returned.
Get7_DropsTail(d, ci, cb) ==
    IF ci >= Len(d)
    THEN [some |-> FALSE, val |-> 0, cur_index |-> ci, cur_bit |-> cb]
    ELSE LET first_part == Shr(Shl8(BitAnd(Shr(254, cb), d[ci + 1]), cb), 1)
         IN  IF cb + 7 < 8
             THEN [some |-> TRUE, val |-> first_part,
                   cur_index |-> ci, cur_bit |-> cb + 7]
             ELSE IF ci + 1 >= Len(d)
             THEN [some |-> FALSE, val |-> 0,
                   cur_index |-> ci + 1, cur_bit |-> cb + 7 - 8]
             ELSE [some |-> TRUE,
                   val |-> BitOr(first_part,
                                 Shr(BitAnd(Shr(65280, cb + 7 - 8), d[ci + 2]),
                                     8 - (cb + 7 - 8))),
                   cur_index |-> ci + 1, cur_bit |-> cb + 7 - 8]

\* Faulty variant of Get7: the end test is off by one
\* (cur_index + 1 >= data.len()), so the last byte is never read.
Get7_OffByOne(d, ci, cb) ==
    IF ci + 1 >= Len(d)
    THEN [some |-> FALSE, val |-> 0, cur_index |-> ci, cur_bit |-> cb]
    ELSE LET first_part == Shr(Shl8(BitAnd(Shr(254, cb), d[ci + 1]), cb), 1)
         IN  IF cb + 7 < 8
             THEN [some |-> TRUE, val |-> first_part,
                   cur_index |-> ci, cur_bit |-> cb + 7]
             ELSE [some |-> TRUE,
                   val |-> BitOr(first_part,
                                 Shr(BitAnd(Shr(65280, cb + 7 - 8), d[ci + 2]),
                                     8 - (cb + 7 - 8))),
                   cur_index |-> ci + 1, cur_bit |-> cb + 7 - 8]

\* Faulty variant of Get7: cur_bit is not brought back below 8 when the
\* cursor moves to the next byte (cur_bit -= 8 is missing).
Get7_NoWrap(d, ci, cb) ==
    IF ci >= Len(d)
    THEN [some |-> FALSE, val |-> 0, cur_index |-> ci, cur_bit |-> cb]
    ELSE LET first_part == Shr(Shl8(BitAnd(Shr(254, cb), d[ci + 1]), cb), 1)
         IN  IF cb + 7 < 8
             THEN [some |-> TRUE, val |-> first_part,
                   cur_index |-> ci, cur_bit |-> cb + 7]
             ELSE IF ci + 1 >= Len(d)
             THEN [some |-> TRUE, val |-> first_part,
                   cur_index |-> ci + 1, cur_bit |-> cb + 7]
             ELSE [some |-> TRUE,
                   val |-> BitOr(first_part,
                                 AsU8(BitAnd(BitAnd(Shr(65280, cb + 7),
                                                    d[ci + 2]), 255))),
                   cur_index |-> ci + 1, cur_bit |-> cb + 7]

Get7FirstPart(first_byte, cb) ==
    Shr(Shl8(BitAnd(Shr(254, cb), first_byte), cb), 1)

Get7SecondPart(second_byte, cb) ==
    LET masked == BitAnd(BitAnd(Shr(65280, cb), second_byte), 255)
    IN  AsU8(IF cb < 8 THEN Shr(masked, 8 - cb) ELSE masked)

Get7(d, ci, cb) ==
    IF ci >= Len(d)
    THEN [some |-> FALSE, val |-> 0, cur_index |-> ci, cur_bit |-> cb]
    ELSE LET first_part == Get7FirstPart(d[ci + 1], cb)
         IN  IF cb + 7 < 8
             THEN [some |-> TRUE, val |-> first_part,
                   cur_index |-> ci, cur_bit |-> cb + 7]
             ELSE IF ci + 1 >= Len(d)
             THEN [some |-> TRUE, val |-> first_part,
                   cur_index |-> ci + 1, cur_bit |-> cb + 7 - 8]
             ELSE [some |-> TRUE,
                   val |-> BitOr(first_part,
                                 Get7SecondPart(d[ci + 2], cb + 7 - 8)),
                   cur_index |-> ci + 1, cur_bit |-> cb + 7 - 8]

\* the indices of data[...] a get7 call at cursor (ci, cb) reads: data[ci]
\* past the first end test, data[ci + 1] past the second
Get7Reads(d, ci, cb) ==
    IF ci >= Len(d) THEN {}
    ELSE IF cb + 7 < 8 THEN {ci}
    ELSE IF ci + 1 >= Len(d) THEN {ci}
    ELSE {ci, ci + 1}

(***************************************************************************)
(* The two-byte escape of encode.                                           *)
(***************************************************************************)
\* Faulty variant of FirstBit: bit 5 is tested instead of bit 6.
FirstBit_WrongBit(x) == IF BitAnd(x, 32) > 0 THEN 1 ELSE 0

\* if (x & 0b01000000) > 0 { 1 } else { 0 }
FirstBit(x) == IF BitAnd(x, 64) > 0 THEN 1 ELSE 0

\* Faulty variant of EscapeB1: the index field is masked to two bits.
EscapeB1_NarrowMask(index_field, payload) ==
    BitOr(BitOr(194, Shl8(BitAnd(index_field, 3), 2)),
          IF BitAnd(payload, 64) > 0 THEN 1 ELSE 0)

\* Faulty variant of EscapeB2: the continuation prefix 0b10000000 is missing.
EscapeB2_NoPrefix(payload) == BitAnd(payload, 63)

\* b1 and b2 for an index field and the 7 bits carried
EscapeB1(index_field, payload) ==
    BitOr(BitOr(194, Shl8(BitAnd(index_field, 7), 2)), FirstBit(payload))

EscapeB2(payload) == BitOr(128, BitAnd(payload, 63))

(***************************************************************************)
(* UTF-8: String::from_utf8 on the encoder's bytes, str::chars() in decode, *)
(* and the bytes of a string made of given scalar values.                   *)
(***************************************************************************)
IsCont(b) == b >= 128 /\ b <= 191

\* length of the well-formed unit starting at bs[j], 0 if there is none
Utf8UnitLen(bs, j) ==
    LET n  == Len(bs)
        b0 == bs[j]
    IN  IF b0 <= 127 THEN 1
        ELSE IF b0 >= 194 /\ b0 <= 223
        THEN IF j + 1 <= n /\ IsCont(bs[j + 1]) THEN 2 ELSE 0
        ELSE IF b0 >= 224 /\ b0 <= 239
        THEN IF /\ j + 2 <= n
                /\ IsCont(bs[j + 1]) /\ IsCont(bs[j + 2])
                /\ (b0 = 224 => bs[j + 1] >= 160)
                /\ (b0 = 237 => bs[j + 1] <= 159)
             THEN 3 ELSE 0
        ELSE IF b0 >= 240 /\ b0 <= 244
        THEN IF /\ j + 3 <= n
                /\ IsCont(bs[j + 1]) /\ IsCont(bs[j + 2]) /\ IsCont(bs[j + 3])
                /\ (b0 = 240 => bs[j + 1] >= 144)
                /\ (b0 = 244 => bs[j + 1] <= 143)
             THEN 4 ELSE 0
        ELSE 0

RECURSIVE Utf8ValidFrom(_, _)
Utf8ValidFrom(bs, j) ==
    IF j > Len(bs) THEN TRUE
    ELSE LET l == Utf8UnitLen(bs, j)
         IN  l > 0 /\ Utf8ValidFrom(bs, j + l)

\* String::from_utf8(bs).is_ok()
Utf8Valid(bs) == Utf8ValidFrom(bs, 1)

\* the scalar value of the well-formed unit of length l at bs[j]
Utf8Scalar(bs, j, l) ==
    IF l = 1 THEN bs[j]
    ELSE IF l = 2 THEN (bs[j] % 32) * 64 + (bs[j + 1] % 64)
    ELSE IF l = 3
    THEN (bs[j] % 16) * 4096 + (bs[j + 1] % 64) * 64 + (bs[j + 2] % 64)
    ELSE (bs[j] % 8) * 262144 + (bs[j + 1] % 64) * 4096
         + (bs[j + 2] % 64) * 64 + (bs[j + 3] % 64)

RECURSIVE Utf8CharsFrom(_, _)
Utf8CharsFrom(bs, j) ==
    IF j > Len(bs) THEN << >>
    ELSE LET l == Utf8UnitLen(bs, j)
         IN  <<Utf8Scalar(bs, j, l)>> \o Utf8CharsFrom(bs, j + l)

\* encoded.chars().collect(), each char as u32
Utf8Chars(bs) == Utf8CharsFrom(bs, 1)

\* the UTF-8 bytes of one scalar value
Utf8Encode(c) ==
    IF c <= 127 THEN <<c>>
    ELSE IF c <= 2047 THEN <<192 + (c \div 64), 128 + (c % 64)>>
    ELSE IF c <= 65535
    THEN <<224 + (c \div 4096), 128 + ((c \div 64) % 64), 128 + (c % 64)>>
    ELSE <<240 + (c \div 262144), 128 + ((c \div 4096) % 64),
           128 + ((c \div 64) % 64), 128 + (c % 64)>>

RECURSIVE Utf8Bytes(_)
Utf8Bytes(cs) ==
    IF cs = << >> THEN << >>
    ELSE Utf8Encode(Head(cs)) \o Utf8Bytes(Tail(cs))

(***************************************************************************)
(* decode::push7, as a function of the accumulator.                         *)
(***************************************************************************)
\* Faulty variant of Push7: the carried bits are shifted one place too far
\* (byte << (8 - bit_of_byte)).
Push7_CarryShift(byte, cb, bob, out) ==
    LET shifted == Shl8(byte, 1)
        acc     == BitOr(cb, Shr(shifted, bob))
    IN  IF bob + 7 >= 8
        THEN [cur_byte    |-> Shl8(shifted, 8 - (bob + 7 - 8)),
              bit_of_byte |-> bob + 7 - 8,
              decoded     |-> Append(out, acc)]
        ELSE [cur_byte |-> acc, bit_of_byte |-> bob + 7, decoded |-> out]

\* Faulty variant of Push7: the bits left over after a completed byte are
\* not carried into the next one.
Push7_NoCarry(byte, cb, bob, out) ==
    LET shifted == Shl8(byte, 1)
        acc     == BitOr(cb, Shr(shifted, bob))
    IN  IF bob + 7 >= 8
        THEN [cur_byte    |-> 0,
              bit_of_byte |-> bob + 7 - 8,
              decoded     |-> Append(out, acc)]
        ELSE [cur_byte |-> acc, bit_of_byte |-> bob + 7, decoded |-> out]

Push7(byte, cb, bob, out) ==
    LET shifted == Shl8(byte, 1)
        acc     == BitOr(cb, Shr(shifted, bob))
    IN  IF bob + 7 >= 8
        THEN [cur_byte    |-> Shl8(shifted, 7 - (bob + 7 - 8)),
              bit_of_byte |-> bob + 7 - 8,
              decoded     |-> Append(out, acc)]
        ELSE [cur_byte |-> acc, bit_of_byte |-> bob + 7, decoded |-> out]

\* (c >> 8) & 7
IndexField(c) == BitAnd(Shr(c, 8), 7)

\* (c & 127) as u8
PayloadField(c) == AsU8(BitAnd(c, 127))


(***************************************************************************)
(* State.                                                                   *)
(***************************************************************************)
VARIABLES
    origin,       \* "encode": encode(data) then decode; "text": decode only
    pc,           \* the position of the call in progress
    data,         \* encode's argument
    cur_index,    \* encode: index of the byte the cursor is in
    cur_bit,      \* encode: bits of that byte already consumed
    bits,         \* encode: the chunk the loop holds
    result,       \* encode: the bytes pushed so far
    encoded,      \* the String encode returns / decode's argument, as bytes
    chars,        \* decode: the chars of encoded, as u32
    i,            \* decode: index of the next char
    cur_byte,     \* decode: accumulator byte
    bit_of_byte,  \* decode: bits held in the accumulator
    decoded,      \* decode: the bytes pushed so far
    outcome,      \* decode: "none" (running), "ok", "err" or "panic"
    pulled,       \* history: the chunks get7 has returned, in order
    nones,        \* history: the number of get7 calls that returned None
    pushed        \* history: the values push7 was called with, in order

vars == <<origin, pc, data, cur_index, cur_bit, bits, result, encoded, chars,
          i, cur_byte, bit_of_byte, decoded, outcome, pulled, nones, pushed>>

encVars == <<data, cur_index, cur_bit, bits, result, pulled, nones>>
decVars == <<chars, i, cur_byte, bit_of_byte, decoded, outcome, pushed>>

RECURSIVE SeqsOver(_, _)
\* the sequences over S of length exactly n
SeqsOver(S, n) ==
    IF n = 0 THEN {<< >>}
    ELSE {Append(s, x) : s \in SeqsOver(S, n - 1), x \in S}

SeqsUpTo(S, n) == UNION {SeqsOver(S, k) : k \in 0..n}

\* the byte slices handed to encode: every slice of at most one byte, and
\* the slices over SampleBytes up to MaxLen
Inputs == SeqsOver(Byte, 1) \cup SeqsUpTo(SampleBytes, MaxLen)

\* the strings handed directly to decode, as UTF-8 bytes
Texts == {Utf8Bytes(cs) : cs \in SeqsUpTo(SampleChars, MaxChars)}

Init ==
    /\ origin \in {"encode", "text"}
    /\ IF origin = "encode"
       THEN /\ data \in Inputs
            /\ encoded = << >>
            /\ pc = "encode"
       ELSE /\ data = << >>
            /\ encoded \in Texts
            /\ pc = "decode"
    /\ cur_index = 0
    /\ cur_bit = 0
    /\ bits = 0
    /\ result = << >>
    /\ chars = << >>
    /\ i = 0
    /\ cur_byte = 0
    /\ bit_of_byte = 0
    /\ decoded = << >>
    /\ outcome = "none"
    /\ pulled = << >>
    /\ nones = 0
    /\ pushed = << >>

(***************************************************************************)
(* encode                                                                   *)
(***************************************************************************)
\* lib.rs 119-121: the empty slice returns String::new()
EncodeEmpty ==
    /\ pc = "encode"
    /\ data = << >>
    /\ encoded' = << >>
    /\ pc' = "decode"
    /\ UNCHANGED <<origin, encVars, decVars>>

\* lib.rs 123-125: a non-empty slice enters the loop with the cursor at (0, 0)
EncodeBegin ==
    /\ pc = "encode"
    /\ data # << >>
    /\ cur_index' = 0
    /\ cur_bit' = 0
    /\ result' = << >>
    /\ pc' = "enc_loop"
    /\ UNCHANGED <<origin, data, bits, encoded, pulled, nones, decVars>>

\* lib.rs 164-166 and 195-198: the loop head pulls a chunk; None leaves the
\* loop, a safe chunk is pushed as it is, a dangerous one goes on to the escape
LoopGet7 ==
    /\ pc = "enc_loop"
    /\ LET g == Get7(data, cur_index, cur_bit)
       IN  /\ cur_index' = g.cur_index
           /\ cur_bit' = g.cur_bit
           /\ IF ~g.some
              THEN /\ pc' = "enc_return"
                   /\ nones' = nones + 1
                   /\ UNCHANGED <<bits, result, pulled>>
              ELSE /\ bits' = g.val
                   /\ pulled' = Append(pulled, g.val)
                   /\ nones' = nones
                   /\ IF IsIllegal(g.val)
                      THEN /\ pc' = "enc_escape"
                           /\ result' = result
                      ELSE /\ pc' = "enc_loop"
                           /\ result' = Append(result, g.val)
    /\ UNCHANGED <<origin, data, encoded, decVars>>

\* Faulty variant of EscapeGet7: when no chunk follows, the escape carries
\* the chunk's own illegal index instead of the SHORTENED marker.
EscapeGet7_NoMarker ==
    /\ pc = "enc_escape"
    /\ LET illegal_index == IllegalPosition(bits)
           next_bits     == Get7(data, cur_index, cur_bit)
       IN  /\ cur_index' = next_bits.cur_index
           /\ cur_bit' = next_bits.cur_bit
           /\ IF ~next_bits.some
              THEN /\ result' = result \o <<EscapeB1(illegal_index, bits),
                                            EscapeB2(bits)>>
                   /\ nones' = nones + 1
                   /\ pulled' = pulled
              ELSE /\ result' = result \o
                                  <<EscapeB1(illegal_index, next_bits.val),
                                    EscapeB2(next_bits.val)>>
                   /\ nones' = nones
                   /\ pulled' = Append(pulled, next_bits.val)
    /\ pc' = "enc_loop"
    /\ UNCHANGED <<origin, data, bits, encoded, decVars>>

\* lib.rs 168-194: the escape pulls the next chunk and pushes b1, b2
EscapeGet7 ==
    /\ pc = "enc_escape"
    /\ LET illegal_index == IllegalPosition(bits)
           next_bits     == Get7(data, cur_index, cur_bit)
       IN  /\ cur_index' = next_bits.cur_index
           /\ cur_bit' = next_bits.cur_bit
           /\ IF ~next_bits.some
              THEN /\ result' = result \o <<EscapeB1(SHORTENED, bits),
                                            EscapeB2(bits)>>
                   /\ nones' = nones + 1
                   /\ pulled' = pulled
              ELSE /\ result' = result \o
                                  <<EscapeB1(illegal_index, next_bits.val),
                                    EscapeB2(next_bits.val)>>
                   /\ nones' = nones
                   /\ pulled' = Append(pulled, next_bits.val)
    /\ pc' = "enc_loop"
    /\ UNCHANGED <<origin, data, bits, encoded, decVars>>

\* lib.rs 202: String::from_utf8(result).unwrap_or_else(|_| String::new())
EncodeReturn ==
    /\ pc = "enc_return"
    /\ encoded' = IF Utf8Valid(result) THEN result ELSE << >>
    /\ pc' = "decode"
    /\ UNCHANGED <<origin, encVars, decVars>>

(***************************************************************************)
(* decode                                                                   *)
(***************************************************************************)
\* lib.rs 245-247: the empty string returns Ok(Vec::new())
DecodeEmpty ==
    /\ pc = "decode"
    /\ encoded = << >>
    /\ decoded' = << >>
    /\ outcome' = "ok"
    /\ pc' = "returned"
    /\ UNCHANGED <<origin, encVars, encoded, chars, i, cur_byte, bit_of_byte,
                   pushed>>

\* lib.rs 249-272: the accumulator is cleared and the chars collected
DecodeBegin ==
    /\ pc = "decode"
    /\ encoded # << >>
    /\ decoded' = << >>
    /\ cur_byte' = 0
    /\ bit_of_byte' = 0
    /\ chars' = Utf8Chars(encoded)
    /\ i' = 0
    /\ pc' = "dec_loop"
    /\ UNCHANGED <<origin, encVars, encoded, outcome, pushed>>

\* the accumulator after push7(byte)
DoPush7(byte) ==
    LET p == Push7(byte, cur_byte, bit_of_byte, decoded)
    IN  /\ cur_byte' = p.cur_byte
        /\ bit_of_byte' = p.bit_of_byte
        /\ decoded' = p.decoded
        /\ pushed' = Append(pushed, byte)

\* lib.rs 274-284 and 288-292: one char; for an escape whose index field is
\* not SHORTENED this is the ILLEGALS lookup and its push7, which panics on an
\* index past the table
DecodeChar ==
    /\ pc = "dec_loop"
    /\ i < Len(chars)
    /\ LET c == chars[i + 1]
           illegal_index == IndexField(c)
       IN  IF c > 127
           THEN IF illegal_index # SHORTENED
                THEN IF illegal_index >= Len(ILLEGALS)
                     THEN /\ outcome' = "panic"
                          /\ pc' = "panicked"
                          /\ UNCHANGED <<i, cur_byte, bit_of_byte, decoded,
                                         pushed>>
                     ELSE /\ DoPush7(ILLEGALS[illegal_index + 1])
                          /\ pc' = "dec_payload"
                          /\ UNCHANGED <<i, outcome>>
                ELSE /\ DoPush7(PayloadField(c))
                     /\ i' = i + 1
                     /\ pc' = "dec_loop"
                     /\ UNCHANGED outcome
           ELSE /\ DoPush7(AsU8(c))
                /\ i' = i + 1
                /\ pc' = "dec_loop"
                /\ UNCHANGED outcome
    /\ UNCHANGED <<origin, encVars, encoded, chars>>

\* lib.rs 286-287 and 292: the escape's remaining 7 bits
DecodePayload ==
    /\ pc = "dec_payload"
    /\ DoPush7(PayloadField(chars[i + 1]))
    /\ i' = i + 1
    /\ pc' = "dec_loop"
    /\ UNCHANGED <<origin, encVars, encoded, chars, outcome>>

\* lib.rs 274 and 295: the loop is over, Ok(decoded)
DecodeReturn ==
    /\ pc = "dec_loop"
    /\ i >= Len(chars)
    /\ outcome' = "ok"
    /\ pc' = "returned"
    /\ UNCHANGED <<origin, encVars, encoded, chars, i, cur_byte, bit_of_byte,
                   decoded, pushed>>

Next ==
    \/ EncodeEmpty
    \/ EncodeBegin
    \/ LoopGet7
    \/ EscapeGet7
    \/ EncodeReturn
    \/ DecodeEmpty
    \/ DecodeBegin
    \/ DecodeChar
    \/ DecodePayload
    \/ DecodeReturn

Spec == Init /\ [][Next]_vars

(***************************************************************************)
(* Vocabulary of the properties, written independently of the operators     *)
(* above.                                                                   *)
(***************************************************************************)
\* the six dangerous values and the position of each
Dangerous == {0, 10, 13, 34, 38, 92}

DangerIndex(v) ==
    CASE v = 0  -> 0
      [] v = 10 -> 1
      [] v = 13 -> 2
      [] v = 34 -> 3
      [] v = 38 -> 4
      [] v = 92 -> 5

\* ceil(8n/7): the number of 7-bit chunks of n bytes
NChunks(n) == (8 * n + 6) \div 7

\* bit p of the bytes d read most significant bit first, 0 past the end
StreamBit(d, p) ==
    IF p >= 8 * Len(d) THEN 0
    ELSE (d[(p \div 8) + 1] \div (2 ^ (7 - (p % 8)))) % 2

\* bits [7k, 7k + 7) of the stream as a number
StreamChunk(d, k) ==
    64 * StreamBit(d, 7 * k) + 32 * StreamBit(d, 7 * k + 1)
    + 16 * StreamBit(d, 7 * k + 2) + 8 * StreamBit(d, 7 * k + 3)
    + 4 * StreamBit(d, 7 * k + 4) + 2 * StreamBit(d, 7 * k + 5)
    + StreamBit(d, 7 * k + 6)

\* encode has returned (the scenario is at or past the call of decode)
EncodeReturned ==
    origin = "encode" /\ pc \in {"decode", "dec_loop", "dec_payload",
                                 "returned", "panicked"}

\* bs parses from position j as one-byte units in [0,127] and two-byte units
\* (b1, b2) with b1 in 0xC2..0xDF and b2 in 0x80..0xBF
RECURSIVE UnitsFrom(_, _)
UnitsFrom(bs, j) ==
    IF j > Len(bs) THEN TRUE
    ELSE IF bs[j] <= 127 THEN UnitsFrom(bs, j + 1)
    ELSE /\ bs[j] >= 194 /\ bs[j] <= 223
         /\ j + 1 <= Len(bs)
         /\ bs[j + 1] >= 128 /\ bs[j + 1] <= 191
         /\ UnitsFrom(bs, j + 2)

\* the index field of the escape that ends bs, -1 if bs does not end with one
LastEscapeIndex(bs) ==
    IF Len(bs) >= 2 /\ bs[Len(bs)] >= 128 /\ bs[Len(bs) - 1] >= 192
    THEN (bs[Len(bs) - 1] \div 4) % 8
    ELSE -1

(***************************************************************************)
(* C1. Round trip: for every byte sequence b, decode(encode(b)) returns Ok  *)
(* with exactly b, and never aborts on the way.                             *)
(***************************************************************************)
C1_RoundTrip ==
    origin = "encode" =>
        /\ pc # "panicked"
        /\ pc = "returned" => (outcome = "ok" /\ decoded = data)

\* a three-byte-or-longer input with a dangerous byte value whose encoding
\* holds an escape has come back intact
C1_Witness ==
    /\ origin = "encode" /\ pc = "returned"
    /\ Len(data) >= 3
    /\ \E k \in 1..Len(data) : data[k] \in Dangerous
    /\ \E k \in 1..Len(encoded) : encoded[k] >= 128
    /\ decoded = data

(***************************************************************************)
(* C2. Decode rejects unrecognised input: a text holding a scalar that is   *)
(* neither a one-byte value nor a well-formed two-byte escape (any scalar   *)
(* above 2047 in particular) makes decode return an error and no bytes.     *)
(***************************************************************************)
\* c is a one-byte value or a two-byte scalar
Recognised(c) == c <= 2047

C2_RejectsUnrecognised ==
    (pc = "returned" /\ \E k \in 1..Len(chars) : ~Recognised(chars[k]))
        => (outcome = "err" /\ decoded = << >>)

(***************************************************************************)
(* C3. Decode handles every string: it runs to completion without aborting, *)
(* and every lookup into the 6-entry table uses an index in 0..5.           *)
(***************************************************************************)
C3_DecodeNeverAborts ==
    /\ outcome # "panic"
    /\ (pc = "dec_loop" /\ i < Len(chars) /\ chars[i + 1] > 127
        /\ (chars[i + 1] \div 256) % 8 # 7)
           => (chars[i + 1] \div 256) % 8 \in 0..5

(***************************************************************************)
(* C4. Output validity: the bytes encode has pushed always parse as         *)
(* one-byte units in [0,127] and two-byte units C2..DF 80..BF, so the       *)
(* conversion at the end returns exactly those bytes: the empty-string      *)
(* fallback is never taken.                                                 *)
(***************************************************************************)
C4_OutputValid ==
    origin = "encode" =>
        /\ UnitsFrom(result, 1)
        /\ EncodeReturned => encoded = result

\* encode has returned a text holding both a one-byte unit and an escape
C4_Witness ==
    /\ EncodeReturned /\ pc = "decode"
    /\ encoded = result
    /\ \E k \in 1..Len(result) : result[k] <= 127
    /\ \E k \in 1..Len(result) : result[k] >= 194

(***************************************************************************)
(* C5. No dangerous byte in the output: no byte encode pushes, and no byte  *)
(* of the text it returns, is one of the six dangerous values, also when a  *)
(* dangerous value travels as the payload of an escape.                     *)
(***************************************************************************)
C5_NoDangerousByte ==
    origin = "encode" =>
        /\ \A k \in 1..Len(result) : result[k] \notin Dangerous
        /\ \A k \in 1..Len(encoded) : encoded[k] \notin Dangerous

\* encode has returned for an input with a non-zero dangerous chunk that was
\* tested and one that travelled as a payload
C5_Witness ==
    /\ EncodeReturned
    /\ encoded # << >>
    /\ \E k \in 1..Len(pulled) : pulled[k] \in Dangerous \ {0}
    /\ \E k \in 1..(Len(pulled) - 1) :
          pulled[k] \in Dangerous /\ pulled[k + 1] \in Dangerous

(***************************************************************************)
(* C6. Density: with n = len(b) and L = len(encode(b)) in bytes, L equals   *)
(* ceil(8n/7) when no chunk of b is dangerous; always n <= L <= 2*ceil(8n/7)*)
(* and 7L >= 8n.                                                            *)
(***************************************************************************)
C6_Density ==
    EncodeReturned =>
        LET n == Len(data)
            L == Len(encoded)
        IN  /\ (\A k \in 0..(NChunks(n) - 1) :
                   StreamChunk(data, k) \notin Dangerous) => L = NChunks(n)
            /\ n <= L
            /\ L <= 2 * NChunks(n)
            /\ 7 * L >= 8 * n

\* encode has returned for an input of four or more bytes none of whose
\* chunks is dangerous
C6_Witness ==
    /\ EncodeReturned
    /\ Len(data) >= 4
    /\ \A k \in 0..(NChunks(Len(data)) - 1) :
          StreamChunk(data, k) \notin Dangerous
    /\ Len(encoded) = NChunks(Len(data))

(***************************************************************************)
(* C7. Emptiness: encode of the empty slice is the empty text, encode of a  *)
(* non-empty slice is non-empty, and decode of the empty text is Ok(empty). *)
(***************************************************************************)
C7_Emptiness ==
    /\ EncodeReturned => (data = << >> <=> encoded = << >>)
    /\ (pc = "returned" /\ encoded = << >>)
          => (outcome = "ok" /\ decoded = << >>)

\* the empty slice has been encoded to the empty text and decoded again
C7_Witness ==
    /\ origin = "encode" /\ pc = "returned"
    /\ data = << >> /\ encoded = << >>
    /\ outcome = "ok" /\ decoded = << >>

(***************************************************************************)
(* C8 as stated: for each one-byte input [d] with d dangerous, the last     *)
(* chunk of [d] is dangerous with no chunk after it, so encode([d]) ends    *)
(* with an escape whose index field is 7, and decode(encode([d])) = [d].    *)
(***************************************************************************)
C8_ShortenedForEveryDangerousByte ==
    (EncodeReturned /\ Len(data) = 1 /\ data[1] \in Dangerous) =>
        /\ pulled # << >>
        /\ pulled[Len(pulled)] \in Dangerous
        /\ LastEscapeIndex(encoded) = 7
        /\ pc = "returned" => decoded = data

(***************************************************************************)
(* C8 amended: each of the six one-byte inputs [d] round-trips.  For d in   *)
(* {10, 34, 38, 92} the last chunk is dangerous (it is 0) with no chunk     *)
(* after it and the text ends with an escape of index field 7.  For d = 0   *)
(* the first chunk is dangerous and takes the second as its payload: the    *)
(* text is the single escape C2 80, index field 0.  For d = 13 the chunks   *)
(* are 6 and 64, neither dangerous, and the text holds no escape.           *)
(***************************************************************************)
C8_DangerousBytesRoundTrip ==
    (EncodeReturned /\ Len(data) = 1 /\ data[1] \in Dangerous) =>
        /\ pc # "panicked"
        /\ pc = "returned" => (outcome = "ok" /\ decoded = data)
        /\ data[1] \in {10, 34, 38, 92} =>
              /\ pulled[Len(pulled)] = 0
              /\ nones = 2
              /\ Len(encoded) = 3
              /\ LastEscapeIndex(encoded) = 7
        /\ data[1] = 0 => (encoded = <<194, 128>> /\ pulled = <<0, 0>>)
        /\ data[1] = 13 => (encoded = <<6, 64>> /\ pulled = <<6, 64>>)

\* [10] has gone through the shortened escape and come back
C8_Witness ==
    /\ origin = "encode" /\ pc = "returned"
    /\ data = <<10>>
    /\ encoded = <<5, 222, 128>>
    /\ decoded = <<10>>

(***************************************************************************)
(* C9. Chunk extractor: the chunks get7 has returned are, in order, bits    *)
(* [7k, 7k+7) of the input read most significant bit first with 0 past the  *)
(* end; get7 returns a chunk exactly while fewer than ceil(8n/7) have been  *)
(* returned, so never one made of padding only, and None from then on,      *)
(* leaving the cursor where it is.                                          *)
(***************************************************************************)
C9_ChunkExtractor ==
    (origin = "encode" /\ pc # "encode") =>
        LET n == Len(data)
            g == Get7(data, cur_index, cur_bit)
        IN  /\ Len(pulled) <= NChunks(n)
            /\ \A k \in 1..Len(pulled) : pulled[k] = StreamChunk(data, k - 1)
            /\ g.some <=> Len(pulled) < NChunks(n)
            /\ g.some => g.val = StreamChunk(data, Len(pulled))
            /\ ~g.some => (g.cur_index = cur_index /\ g.cur_bit = cur_bit)
            /\ nones > 0 => Len(pulled) = NChunks(n)
            /\ 7 * Len(pulled) < 8 * n + 7

\* five bytes have given six chunks, the last one the short chunk 92, and
\* get7 has returned None twice
C9_Witness ==
    /\ origin = "encode" /\ pc = "enc_return"
    /\ Len(data) = 5
    /\ Len(pulled) = 6
    /\ pulled[6] = 92
    /\ nones = 2

(***************************************************************************)
(* C10. Escape format: a dangerous chunk at index k followed by a chunk p   *)
(* makes encode push exactly b1 = 0xC2 | k << 2 | bit 6 of p and            *)
(* b2 = 0x80 | (p & 0x3F); p is neither pushed on its own nor held as the   *)
(* chunk under test; the scalar of every escape pushed is                   *)
(* index_field << 8 | 0x80 | payload, from which decode's (c >> 8) & 7 and  *)
(* c & 127 recover index_field and payload.                                 *)
(***************************************************************************)
C10_EscapeFormat ==
    [][pc = "enc_escape" =>
        LET withNext == Len(pulled') = Len(pulled) + 1
            k == IF withNext THEN DangerIndex(bits) ELSE 7
            p == IF withNext THEN pulled'[Len(pulled')] ELSE bits
            b1 == 194 + 4 * k + (p \div 64)
            b2 == 128 + (p % 64)
            c == Utf8Chars(SubSeq(result', Len(result) + 1, Len(result')))
        IN  /\ withNext <=> Len(pulled) < NChunks(Len(data))
            /\ withNext => p = StreamChunk(data, Len(pulled))
            /\ bits \in Dangerous
            /\ bits = pulled[Len(pulled)]
            /\ result' = result \o <<b1, b2>>
            /\ bits' = bits
            /\ pc' = "enc_loop"
            /\ Len(c) = 1
            /\ c[1] = 256 * k + 128 + p
            /\ IndexField(c[1]) = k
            /\ PayloadField(c[1]) = p
      ]_vars

\* the escape for chunk 92 (index 5) followed by the dangerous chunk 10 with
\* more input behind it has just been pushed
C10_Witness ==
    /\ origin = "encode" /\ pc = "enc_loop"
    /\ Len(pulled) >= 2
    /\ Len(pulled) < NChunks(Len(data))
    /\ bits = pulled[Len(pulled) - 1]
    /\ bits \in Dangerous \ {0}
    /\ pulled[Len(pulled)] >= 64
    /\ pulled[Len(pulled)] % 64 # 0
    /\ Len(result) >= 2
    /\ result[Len(result) - 1] = 194 + 4 * DangerIndex(bits) + 1
    /\ result[Len(result)] = 128 + (pulled[Len(pulled)] % 64)

(***************************************************************************)
(* C11. Shortened marker placement: encode(b) holds an escape with index    *)
(* field 7 exactly when the last chunk of b is dangerous and was not taken  *)
(* as the payload of the escape before it; that escape is the final unit of *)
(* the output, so there is at most one, and its payload is the chunk's own  *)
(* value; every other escape has an index field in 0..5, never 6.           *)
(***************************************************************************)
\* walking the chunks of d from chunk pos as encode does (a dangerous chunk
\* takes the next one with it): the walk ends on a dangerous last chunk
RECURSIVE LastChunkTestedDangerous(_, _)
LastChunkTestedDangerous(d, pos) ==
    LET m == NChunks(Len(d))
    IN  IF pos >= m THEN FALSE
        ELSE IF StreamChunk(d, pos) \in Dangerous
        THEN IF pos = m - 1 THEN TRUE
             ELSE LastChunkTestedDangerous(d, pos + 2)
        ELSE LastChunkTestedDangerous(d, pos + 1)

\* the positions in bs, from j on, of the first bytes of its two-byte units
RECURSIVE EscapeStarts(_, _)
EscapeStarts(bs, j) ==
    IF j > Len(bs) THEN {}
    ELSE IF bs[j] <= 127 THEN EscapeStarts(bs, j + 1)
    ELSE {j} \cup EscapeStarts(bs, j + 2)

\* the index field and the payload of the two-byte unit at bs[j]
UnitIndex(bs, j) == (bs[j] \div 4) % 8
UnitPayload(bs, j) == 64 * (bs[j] % 2) + (bs[j + 1] % 64)

C11_ShortenedMarker ==
    origin = "encode" =>
        LET m == NChunks(Len(data))
            E == EscapeStarts(result, 1)
        IN  /\ \A j \in E : UnitIndex(result, j) \in (0..5) \cup {7}
            /\ \A j \in E : UnitIndex(result, j) = 7 =>
                  /\ j = Len(result) - 1
                  /\ nones >= 1
                  /\ Len(pulled) = m
                  /\ UnitPayload(result, j) = StreamChunk(data, m - 1)
                  /\ UnitPayload(result, j) \in Dangerous
            /\ EncodeReturned =>
                  ((\E j \in E : UnitIndex(result, j) = 7)
                      <=> LastChunkTestedDangerous(data, 0))
            /\ (EncodeReturned /\ data # << >>
                /\ StreamChunk(data, m - 1) \in Dangerous
                /\ ~LastChunkTestedDangerous(data, 0))
                  => \A j \in E : UnitIndex(result, j) # 7

\* encode has returned a text with an ordinary escape and, as its final unit,
\* the shortened escape of the non-zero last chunk 92
C11_Witness ==
    /\ EncodeReturned
    /\ Len(result) >= 4
    /\ UnitIndex(result, Len(result) - 1) = 7
    /\ UnitPayload(result, Len(result) - 1) = 92
    /\ result[Len(result)] >= 128
    /\ \E j \in EscapeStarts(result, 1) : UnitIndex(result, j) \in 0..5

(***************************************************************************)
(* C12. Decoder accumulator: after m push7 calls, all with 7-bit values,    *)
(* bit_of_byte = 7m mod 8 (so it is in 0..7), decoded holds exactly         *)
(* floor(7m/8) bytes, the first bytes of the chunks laid end to end most    *)
(* significant bit first, cur_byte holds the 7m mod 8 bits left over in its *)
(* top positions with zeros below, and the bits left over are not flushed   *)
(* to the output when decode returns.                                       *)
(***************************************************************************)
\* bit p of the pushed chunks laid end to end, 0 past the last chunk
PushedBit(p) ==
    IF p >= 7 * Len(pushed) THEN 0
    ELSE (pushed[(p \div 7) + 1] \div (2 ^ (6 - (p % 7)))) % 2

\* bits [8k, 8k + 8) of the pushed chunks as a number
PushedByte(k) ==
    128 * PushedBit(8 * k) + 64 * PushedBit(8 * k + 1)
    + 32 * PushedBit(8 * k + 2) + 16 * PushedBit(8 * k + 3)
    + 8 * PushedBit(8 * k + 4) + 4 * PushedBit(8 * k + 5)
    + 2 * PushedBit(8 * k + 6) + PushedBit(8 * k + 7)

C12_Accumulator ==
    LET m == Len(pushed)
    IN  /\ \A k \in 1..m : pushed[k] \in 0..127
        /\ bit_of_byte = (7 * m) % 8
        /\ bit_of_byte \in 0..7
        /\ Len(decoded) = (7 * m) \div 8
        /\ \A k \in 1..Len(decoded) : decoded[k] = PushedByte(k - 1)
        /\ cur_byte = PushedByte((7 * m) \div 8)
        /\ cur_byte % (2 ^ (8 - bit_of_byte)) = 0
        /\ (pc = "returned" /\ outcome = "ok") =>
              8 * Len(decoded) + bit_of_byte = 7 * m

\* decode has returned after three or more pushes, an escape's two among
\* them, with non-zero bits left in the accumulator and not in the output
C12_Witness ==
    /\ pc = "returned" /\ outcome = "ok"
    /\ Len(pushed) >= 3
    /\ Len(pushed) > Len(chars)
    /\ bit_of_byte > 0
    /\ cur_byte # 0
    /\ Len(decoded) = (7 * Len(pushed)) \div 8

(***************************************************************************)
(* C13 as stated: between get7 calls cur_bit is in 0..7 and                 *)
(* cur_index <= len(b); every get7 call that returns a chunk advances       *)
(* 8 * cur_index + cur_bit by exactly 7; so the loop of encode ends after   *)
(* at most ceil(8n/7) chunk pulls followed by one None, and no call reads   *)
(* data at an index >= n.                                                   *)
(***************************************************************************)
\* the cursor part of the claim, which both versions share
CursorBounded ==
    LET n == Len(data)
    IN  /\ cur_bit \in 0..7
        /\ cur_index \in 0..n
        /\ 8 * cur_index + cur_bit = 7 * Len(pulled)
        /\ Len(pulled) <= NChunks(n)
        /\ pc \in {"enc_loop", "enc_escape"} =>
              Get7Reads(data, cur_index, cur_bit) \subseteq 0..(n - 1)

C13_OneNoneEndsTheLoop ==
    origin = "encode" =>
        /\ CursorBounded
        /\ Len(pulled) + nones <= NChunks(Len(data)) + 1
        /\ (pc = "enc_return" \/ EncodeReturned) /\ data # << >>
              => nones = 1

(***************************************************************************)
(* C13 amended: the same, except that the chunk pulls are followed by one   *)
(* None, or by two when the last chunk is dangerous with no chunk after it: *)
(* then the escape's own pull returns None first and the loop head's pull   *)
(* returns the None that ends the loop.  get7 is called at most             *)
(* ceil(8n/7) + 2 times, and once it has returned None the next call at the *)
(* loop head returns None too.                                              *)
(***************************************************************************)
C13_BoundedCursor ==
    origin = "encode" =>
        /\ CursorBounded
        /\ nones <= 2
        /\ Len(pulled) + nones <= NChunks(Len(data)) + 2
        /\ nones >= 1 => Len(pulled) = NChunks(Len(data))
        /\ (pc = "enc_loop" /\ nones >= 1) =>
              ~Get7(data, cur_index, cur_bit).some
        /\ pc = "enc_escape" => nones = 0
        /\ (pc = "enc_return" \/ EncodeReturned) /\ data # << >> =>
              /\ nones \in {1, 2}
              /\ nones = 2 <=> LastChunkTestedDangerous(data, 0)
              /\ cur_index = Len(data)

\* the loop over four or more bytes has ended on a single None with the
\* cursor past the last byte and inside the padding
C13_Witness ==
    /\ origin = "encode" /\ pc = "enc_return"
    /\ Len(data) >= 4
    /\ nones = 1
    /\ cur_index = Len(data)
    /\ cur_bit > 0
    /\ 8 * cur_index + cur_bit = 7 * NChunks(Len(data))
    /\ \E k \in 1..Len(result) : result[k] >= 128

=============================================================================
